---- MODULE Spec2Model ----
(***************************************************************************)
(* Model of bitbucket_revoke_and_audit.js: the per-row revoke / verify /   *)
(* evidence / categorize loop of main, the evidence renderer               *)
(* createEvidence with its capture and trim fallbacks, and the two report  *)
(* generations that follow the loop.                                       *)
(*                                                                         *)
(* Strings whose characters matter (the CSV fields, which are trimmed, and *)
(* the principal names, which are lower-cased) are sequences of            *)
(* one-character strings.  A CSV field that is missing and one that is     *)
(* empty are both the empty sequence: `row[...] || ''` maps both to ''.    *)
(* Every action is one await of the program together with the synchronous  *)
(* code that follows it up to the next await.  Evidence files are named by *)
(* the index of the row (the program names them by user, project and the   *)
(* second of the wall clock).                                              *)
(***************************************************************************)
EXTENDS Naturals, Sequences, FiniteSets

VARIABLES nrows, row, i, pc, revokeResp, revokeRes, verifyResp, verifyRes, destDir,
          browser, trimRes, htmlFiles, pngFiles, accessCsv, noAccessCsv,
          apiCalls, reports, fatal

vars == <<nrows, row, i, pc, revokeResp, revokeRes, verifyResp, verifyRes, destDir,
          browser, trimRes, htmlFiles, pngFiles, accessCsv, noAccessCsv,
          apiCalls, reports, fatal>>

\* ------------------------------------------------------------------------
\* Bounds
\* ------------------------------------------------------------------------

\* Largest number of rows in the input CSV.
MaxRows == 2

\* Largest number of entries in the values list of a verify response.
MaxValues == 2

\* ------------------------------------------------------------------------
\* Strings
\* ------------------------------------------------------------------------

HAS_ACCESS == <<"H", "A", "S", "_", "A", "C", "C", "E", "S", "S">>

NO_ACCESS == <<"N", "O", "_", "A", "C", "C", "E", "S", "S">>

IsSpace(c) == c = " "

RECURSIVE TrimStart(_)
TrimStart(s) ==
    IF s # <<>> /\ IsSpace(Head(s)) THEN TrimStart(Tail(s)) ELSE s

RECURSIVE TrimEnd(_)
TrimEnd(s) ==
    IF s # <<>> /\ IsSpace(s[Len(s)]) THEN TrimEnd(SubSeq(s, 1, Len(s) - 1)) ELSE s

\* String.prototype.trim
Trim(s) == TrimEnd(TrimStart(s))

\* toLowerCase on the letters of the names.
ToLowerChar(c) ==
    CASE c = "J" -> "j"
      [] c = "D" -> "d"
      [] c = "A" -> "a"
      [] c = "L" -> "l"
      [] OTHER -> c

ToLowerCaseId(s) == s

\* String.prototype.toLowerCase
ToLowerCase(s) == [k \in 1..Len(s) |-> ToLowerChar(s[k])]

\* ------------------------------------------------------------------------
\* Input rows
\* ------------------------------------------------------------------------

Row(u, p, st) == [Username |-> u, ProjectKey |-> p, AccessStatus |-> st]

\* A row to process, the same with a padded status, and rows with a blank
\* username, no project key, and the status NO_ACCESS.
InputRows ==
    { Row(<<" ", "J", "d">>, <<"P">>, HAS_ACCESS),
      Row(<<" ", "J", "d">>, <<"P">>, HAS_ACCESS \o <<" ">>),
      Row(<<" ">>, <<"P">>, HAS_ACCESS),
      Row(<<" ", "J", "d">>, <<>>, HAS_ACCESS),
      Row(<<" ", "J", "d">>, <<"P">>, NO_ACCESS) }

NoRow == Row(<<>>, <<>>, <<>>)

\* main, lines 299-310: the fields after `|| ''` and trim, and the two skips.
RowUser(r) == Trim(r.Username)

RowProject(r) == Trim(r.ProjectKey)

RowStatus(r) == Trim(r.AccessStatus)

ShouldSkipNoFields(r) == RowStatus(r) # HAS_ACCESS

ShouldSkip(r) ==
    \/ RowUser(r) = <<>>
    \/ RowProject(r) = <<>>
    \/ RowStatus(r) # HAS_ACCESS

\* ------------------------------------------------------------------------
\* Revoke (revokeAccess, lines 96-110)
\* ------------------------------------------------------------------------

NetworkErrors == { "timeout of 20000ms exceeded" }

\* What axios does with the DELETE: it throws, or (validateStatus: () => true)
\* it resolves with whatever status the server sent.
RevokeResponses ==
    { [k |-> "throw", status |-> "none", message |-> m] : m \in NetworkErrors }
    \cup { [k |-> "resp", status |-> st, message |-> "none"] : st \in {"204", "200", "404"} }

NoRevokeResp == [k |-> "none", status |-> "none", message |-> "none"]

NoRevoke == [ok |-> FALSE, status |-> "unset", error |-> "unset"]

revokeAccessAny2xx(resp) ==
    IF resp.k = "throw"
    THEN [ok |-> FALSE, status |-> "null", error |-> resp.message]
    ELSE [ok |-> resp.status \in {"200", "204"}, status |-> resp.status,
          error |-> "undefined"]

revokeAccess(resp) ==
    IF resp.k = "throw"
    THEN [ok |-> FALSE, status |-> "null", error |-> resp.message]
    ELSE [ok |-> resp.status = "204", status |-> resp.status, error |-> "undefined"]

\* ------------------------------------------------------------------------
\* Verify (verifyAccess, lines 112-132)
\* ------------------------------------------------------------------------

\* JavaScript values of the name fields: undefined, a string, a number.
Undef == [k |-> "undef", s |-> <<>>]

Str(s) == [k |-> "str", s |-> s]

Num == [k |-> "num", s |-> <<>>]

Truthy(v) == \/ v.k = "num"
             \/ v.k = "str" /\ v.s # <<>>

NoUser == [k |-> "undef", name |-> Undef]

UserObj(n) == [k |-> "obj", name |-> n]

NullEntry == [k |-> "null", name |-> Undef, user |-> NoUser]

Obj(n, u) == [k |-> "obj", name |-> n, user |-> u]

PrincipalNames == { <<"j", "D">>, <<"a", "l">> }

\* The entries a values list can hold: null, {}, {name: 5}, {name: n},
\* {user: {name: n}} and {name: n, user: {name: m}}.
Entries ==
    { NullEntry, Obj(Undef, NoUser), Obj(Num, NoUser) }
    \cup { Obj(Str(n), NoUser) : n \in PrincipalNames }
    \cup { Obj(Undef, UserObj(Str(n))) : n \in PrincipalNames }
    \cup { Obj(Str(n), UserObj(Str(m))) : n, m \in PrincipalNames }

ValueLists == UNION { [1..n -> Entries] : n \in 0..MaxValues }

\* resp.data: null (no body), or an object whose values field is missing, is
\* not an array, or is an array.
NullData == [k |-> "null", vk |-> "undef", items |-> <<>>]

RawUndefined == [k |-> "undefined", vk |-> "undef", items |-> <<>>]

DataOf(vk, items) == [k |-> "obj", vk |-> vk, items |-> items]

VerifyThrows ==
    { [k |-> "throw", status |-> "none", data |-> NullData, message |-> m] :
        m \in NetworkErrors }

NoVerifyResp == [k |-> "none", status |-> "none", data |-> NullData, message |-> "none"]

VerifyOk(d) == [k |-> "resp", status |-> "200", data |-> d, message |-> "none"]

VerifyResponses ==
    VerifyThrows
    \cup { VerifyOk(NullData), VerifyOk(DataOf("undef", <<>>)),
           VerifyOk(DataOf("notarr", <<>>)) }
    \cup { VerifyOk(DataOf("arr", l)) : l \in ValueLists }

\* The responses the pipeline is run against.
PipelineVerifyResponses ==
    VerifyThrows
    \cup { VerifyOk(NullData),
           VerifyOk(DataOf("arr", <<>>)),
           VerifyOk(DataOf("arr", <<Obj(Undef, UserObj(Str(<<"j", "D">>)))>>)),
           VerifyOk(DataOf("arr", <<Obj(Str(<<"a", "l">>), NoUser)>>)),
           VerifyOk(DataOf("arr", <<NullEntry>>)) }

TypeErrors ==
    { "Cannot read properties of null (reading 'name')",
      "nm.toLowerCase is not a function" }

\* line 123: v.name || (v.user && v.user.name) || ""
EntryName(v) ==
    IF Truthy(v.name) THEN v.name
    ELSE IF v.user.k = "obj" /\ Truthy(v.user.name) THEN v.user.name
    ELSE Str(<<>>)

\* lines 122-125: the callback of some() on one entry: "true", "false", or
\* the message of the TypeError it throws.
EntryMatches(v, username) ==
    IF v.k = "null" THEN "Cannot read properties of null (reading 'name')"
    ELSE IF EntryName(v).k # "str" THEN "nm.toLowerCase is not a function"
    ELSE IF ToLowerCase(EntryName(v).s) = ToLowerCase(username) THEN "true"
    ELSE "false"

\* Array.prototype.some: in order, stopping at the first true or throw.
RECURSIVE SomeMatch(_, _)
SomeMatch(items, username) ==
    IF items = <<>> THEN "false"
    ELSE LET r == EntryMatches(Head(items), username)
         IN IF r = "false" THEN SomeMatch(Tail(items), username) ELSE r

NoVerify ==
    [ok |-> FALSE, status |-> "unset", hasAccess |-> "unset", raw |-> RawUndefined,
     error |-> "unset"]

\* line 130: the catch returns neither status, hasAccess nor raw.
CatchResult(msg) ==
    [ok |-> FALSE, status |-> "undefined", hasAccess |-> "undefined",
     raw |-> RawUndefined, error |-> msg]

verifyAccess(resp, username) ==
    IF resp.k = "throw" THEN CatchResult(resp.message)
    ELSE LET scan == IF resp.data.k = "obj" /\ resp.data.vk = "arr"
                     THEN SomeMatch(resp.data.items, username)
                     ELSE "false"
         IN IF scan \in TypeErrors THEN CatchResult(scan)
            ELSE [ok |-> TRUE, status |-> resp.status, hasAccess |-> scan,
                  raw |-> resp.data, error |-> "undefined"]

\* The truthiness of verifyRes.hasAccess (true, false or undefined).
HasAccess(vr) == vr.hasAccess = "true"

\* ------------------------------------------------------------------------
\* Categorization (main, lines 325-346)
\* ------------------------------------------------------------------------

Dirs == { "has_access", "no_access" }

PngDirForOk(vr) == IF vr.ok THEN "has_access" ELSE "no_access"

\* lines 325-327: the directory of destPng.
PngDirFor(vr) == IF HasAccess(vr) THEN "has_access" ELSE "no_access"

EvidencePayloadRaw(vr) == "raw"

\* line 333: verifyRes.raw || verifyRes
EvidencePayload(vr) == IF vr.raw.k = "obj" THEN "raw" ELSE "verifyRes"

\* lines 340 and 344: the row appended; the screenshot column is destPng.
CsvRow(idx, r, category, dir) ==
    [idx |-> idx, user |-> RowUser(r), project |-> RowProject(r),
     status |-> category, png |-> [dir |-> dir, idx |-> idx]]

\* ------------------------------------------------------------------------
\* State
\* ------------------------------------------------------------------------

\* The files of one image directory: the final image of a row (tmp = FALSE)
\* and its destPng + '.tmp.png' (tmp = TRUE), with what they hold: the
\* clipped or the full-page capture, trimmed or not.
PngFile(idx, tmp, shot, trimmed) ==
    [idx |-> idx, tmp |-> tmp, shot |-> shot, trimmed |-> trimmed]

BodyPcs ==
    { "revoke", "verify", "launch", "goto", "measure", "clip", "fallback", "trim",
      "close", "append" }

EvidencePcs == { "launch", "goto", "measure", "clip", "fallback", "trim", "close" }

Init ==
    /\ nrows \in 0..MaxRows
    /\ row = NoRow
    /\ i = 0
    /\ pc = "loop"
    /\ revokeResp = NoRevokeResp
    /\ revokeRes = NoRevoke
    /\ verifyResp = NoVerifyResp
    /\ verifyRes = NoVerify
    /\ destDir = "none"
    /\ browser = "none"
    /\ trimRes = "none"
    /\ htmlFiles = {}
    /\ pngFiles = [d \in Dirs |-> {}]
    /\ accessCsv = <<>>
    /\ noAccessCsv = <<>>
    /\ apiCalls = <<>>
    /\ reports = {}
    /\ fatal = "none"

\* A new iteration of the for loop binds fresh locals.
FreshLocals ==
    /\ revokeResp' = NoRevokeResp
    /\ revokeRes' = NoRevoke
    /\ verifyResp' = NoVerifyResp
    /\ verifyRes' = NoVerify
    /\ destDir' = "none"
    /\ browser' = "none"
    /\ trimRes' = "none"

\* lines 355-358: the catch of main logs the error and exits with code 2.
Fatal(where) ==
    /\ pc' = "exit2"
    /\ fatal' = where

\* ------------------------------------------------------------------------
\* The loop of main (lines 298-347)
\* ------------------------------------------------------------------------

\* lines 298-310: the next row is skipped.
SkipRow ==
    /\ pc = "loop"
    /\ i < nrows
    /\ \E r \in InputRows :
          /\ ShouldSkip(r)
          /\ row' = r
    /\ i' = i + 1
    /\ FreshLocals
    /\ UNCHANGED <<nrows, pc, htmlFiles, pngFiles, accessCsv, noAccessCsv, apiCalls,
                   reports, fatal>>

\* lines 298-315: the next row is processed, up to the call of revokeAccess.
StartRow ==
    /\ pc = "loop"
    /\ i < nrows
    /\ \E r \in InputRows :
          /\ ~ShouldSkip(r)
          /\ row' = r
    /\ i' = i + 1
    /\ FreshLocals
    /\ pc' = "revoke"
    /\ UNCHANGED <<nrows, htmlFiles, pngFiles, accessCsv, noAccessCsv, apiCalls,
                   reports, fatal>>

\* lines 315-319: the DELETE completes; on to the call of verifyAccess.
Revoke ==
    /\ pc = "revoke"
    /\ \E resp \in RevokeResponses :
          /\ revokeResp' = resp
          /\ revokeRes' = revokeAccess(resp)
    /\ apiCalls' = Append(apiCalls, [op |-> "DELETE", idx |-> i])
    /\ pc' = "verify"
    /\ UNCHANGED <<nrows, row, i, verifyResp, verifyRes, destDir, browser, trimRes,
                   htmlFiles, pngFiles, accessCsv, noAccessCsv, reports, fatal>>

\* lines 319-335 and 139-170: the GET completes, destPng is chosen, and
\* createEvidence writes the markup file and launches the browser.
VerifyWith(responses) ==
    /\ pc = "verify"
    /\ \E resp \in responses :
          /\ verifyResp' = resp
          /\ verifyRes' = verifyAccess(resp, RowUser(row))
    /\ apiCalls' = Append(apiCalls, [op |-> "GET", idx |-> i])
    /\ destDir' = PngDirFor(verifyRes')
    /\ htmlFiles' = htmlFiles \cup { [idx |-> i, payload |-> EvidencePayload(verifyRes')] }
    /\ pc' = "launch"
    /\ UNCHANGED <<nrows, row, i, revokeResp, revokeRes, browser, trimRes, pngFiles,
                   accessCsv, noAccessCsv, reports, fatal>>

Verify == VerifyWith(PipelineVerifyResponses)

\* ------------------------------------------------------------------------
\* createEvidence (lines 170-209)
\* ------------------------------------------------------------------------

\* line 170: puppeteer.launch resolves or rejects.
Launch ==
    /\ pc = "launch"
    /\ \/ /\ browser' = "open"
          /\ pc' = "goto"
          /\ UNCHANGED fatal
       \/ /\ Fatal("launch")
          /\ UNCHANGED browser
    /\ UNCHANGED <<nrows, row, i, revokeResp, revokeRes, verifyResp, verifyRes, destDir,
                   trimRes, htmlFiles, pngFiles, accessCsv, noAccessCsv, apiCalls,
                   reports>>

\* lines 171-172: newPage and goto resolve, or one of them rejects.
Navigate ==
    /\ pc = "goto"
    /\ \/ /\ pc' = "measure"
          /\ UNCHANGED fatal
       \/ Fatal("goto")
    /\ UNCHANGED <<nrows, row, i, revokeResp, revokeRes, verifyResp, verifyRes, destDir,
                   browser, trimRes, htmlFiles, pngFiles, accessCsv, noAccessCsv,
                   apiCalls, reports>>

\* lines 174-188: evaluate and setViewport resolve, or one of them rejects.
Measure ==
    /\ pc = "measure"
    /\ \/ /\ pc' = "clip"
          /\ UNCHANGED fatal
       \/ Fatal("measure")
    /\ UNCHANGED <<nrows, row, i, revokeResp, revokeRes, verifyResp, verifyRes, destDir,
                   browser, trimRes, htmlFiles, pngFiles, accessCsv, noAccessCsv,
                   apiCalls, reports>>

\* lines 191-194: the clipped screenshot writes tmpPng, or throws.
Clip ==
    /\ pc = "clip"
    /\ \/ /\ pngFiles' = [pngFiles EXCEPT ![destDir] = @ \cup { PngFile(i, TRUE, "clip", FALSE) }]
          /\ pc' = "trim"
       \/ /\ pc' = "fallback"
          /\ UNCHANGED pngFiles
    /\ UNCHANGED <<nrows, row, i, revokeResp, revokeRes, verifyResp, verifyRes, destDir,
                   browser, trimRes, htmlFiles, accessCsv, noAccessCsv, apiCalls,
                   reports, fatal>>

\* lines 194-197: the full-page screenshot in the catch writes tmpPng, or throws.
Fallback ==
    /\ pc = "fallback"
    /\ \/ /\ pngFiles' = [pngFiles EXCEPT ![destDir] = @ \cup { PngFile(i, TRUE, "full", FALSE) }]
          /\ pc' = "trim"
          /\ UNCHANGED fatal
       \/ /\ Fatal("screenshot")
          /\ UNCHANGED pngFiles
    /\ UNCHANGED <<nrows, row, i, revokeResp, revokeRes, verifyResp, verifyRes, destDir,
                   browser, trimRes, htmlFiles, accessCsv, noAccessCsv, apiCalls,
                   reports>>

TmpOf(dir, idx) == { f \in pngFiles[dir] : f.idx = idx /\ f.tmp }

FinalOf(dir, idx) == { f \in pngFiles[dir] : f.idx = idx /\ ~f.tmp }

\* line 201: sharp writes the trimmed image to destPng.
SharpWrites(files, t) ==
    { f \in files : ~(f.idx = t.idx /\ ~f.tmp) } \cup { PngFile(t.idx, FALSE, t.shot, TRUE) }

\* line 202: unlinkSync(tmpPng).
Unlinked(files, t) == files \ { t }

\* line 205: renameSync(tmpPng, destPng) replaces destPng by the raw capture.
Renamed(files, t) ==
    { f \in files : f.idx # t.idx } \cup { PngFile(t.idx, FALSE, t.shot, t.trimmed) }

\* lines 199-207: sharp trims tmpPng into destPng and tmpPng is unlinked; if
\* either throws, tmpPng is renamed to destPng, and a rename that throws is
\* ignored.  Then browser.close is called.
TrimStep ==
    /\ pc = "trim"
    /\ \E t \in TmpOf(destDir, i) :
          \/ /\ trimRes' = "trimmed"
             /\ \/ pngFiles' = [pngFiles EXCEPT ![destDir] = Unlinked(SharpWrites(@, t), t)]
                \/ pngFiles' = [pngFiles EXCEPT ![destDir] = Renamed(SharpWrites(@, t), t)]
                \/ pngFiles' = [pngFiles EXCEPT ![destDir] = SharpWrites(@, t)]
          \/ /\ trimRes' = "failed"
             /\ \/ pngFiles' = [pngFiles EXCEPT ![destDir] = Renamed(@, t)]
                \/ UNCHANGED pngFiles
    /\ pc' = "close"
    /\ UNCHANGED <<nrows, row, i, revokeResp, revokeRes, verifyResp, verifyRes, destDir,
                   browser, htmlFiles, accessCsv, noAccessCsv, apiCalls, reports, fatal>>

\* lines 207-209: browser.close resolves and createEvidence returns.
Close ==
    /\ pc = "close"
    /\ browser' = "closed"
    /\ pc' = "append"
    /\ UNCHANGED <<nrows, row, i, revokeResp, revokeRes, verifyResp, verifyRes, destDir,
                   trimRes, htmlFiles, pngFiles, accessCsv, noAccessCsv, apiCalls,
                   reports, fatal>>

\* lines 337-347: the row is appended to one of the two CSV files.
AppendCsv ==
    /\ pc = "append"
    /\ IF HasAccess(verifyRes)
       THEN /\ accessCsv' = Append(accessCsv, CsvRow(i, row, "HAS_ACCESS", destDir))
            /\ UNCHANGED noAccessCsv
       ELSE /\ noAccessCsv' = Append(noAccessCsv, CsvRow(i, row, "NO_ACCESS", destDir))
            /\ UNCHANGED accessCsv
    /\ pc' = "loop"
    /\ UNCHANGED <<nrows, row, i, revokeResp, revokeRes, verifyResp, verifyRes, destDir,
                   browser, trimRes, htmlFiles, pngFiles, apiCalls, reports, fatal>>

\* ------------------------------------------------------------------------
\* Reports (lines 349-353 and createDocx, lines 216-272)
\* ------------------------------------------------------------------------

\* line 298: the rows are exhausted; on to the first createDocx.
LoopEnd ==
    /\ pc = "loop"
    /\ i = nrows
    /\ row' = NoRow
    /\ FreshLocals
    /\ pc' = "docx_has"
    /\ UNCHANGED <<nrows, i, htmlFiles, pngFiles, accessCsv, noAccessCsv, apiCalls,
                   reports, fatal>>

\* line 217: the names ending in ".png" (a left-over ".tmp.png" is one).
PngsIn(dir) == pngFiles[dir]

\* createDocx: nothing for an empty directory; otherwise the document is
\* written, or the write stream fails and the promise rejects.
CreateDocx(dir, next) ==
    IF PngsIn(dir) = {}
    THEN /\ pc' = next
         /\ UNCHANGED <<reports, fatal>>
    ELSE \/ /\ reports' = reports \cup { [dir |-> dir, pages |-> Cardinality(PngsIn(dir))] }
            /\ pc' = next
            /\ UNCHANGED fatal
         \/ /\ Fatal("docx_" \o dir)
            /\ UNCHANGED reports

\* line 350
DocxHasAccess ==
    /\ pc = "docx_has"
    /\ CreateDocx("has_access", "docx_no")
    /\ UNCHANGED <<nrows, row, i, revokeResp, revokeRes, verifyResp, verifyRes, destDir,
                   browser, trimRes, htmlFiles, pngFiles, accessCsv, noAccessCsv,
                   apiCalls>>

\* lines 351-353
DocxNoAccess ==
    /\ pc = "docx_no"
    /\ CreateDocx("no_access", "exit0")
    /\ UNCHANGED <<nrows, row, i, revokeResp, revokeRes, verifyResp, verifyRes, destDir,
                   browser, trimRes, htmlFiles, pngFiles, accessCsv, noAccessCsv,
                   apiCalls>>

Next ==
    \/ SkipRow
    \/ StartRow
    \/ Revoke
    \/ Verify
    \/ Launch
    \/ Navigate
    \/ Measure
    \/ Clip
    \/ Fallback
    \/ TrimStep
    \/ Close
    \/ AppendCsv
    \/ LoopEnd
    \/ DocxHasAccess
    \/ DocxNoAccess

Spec == Init /\ [][Next]_vars

\* ------------------------------------------------------------------------
\* verifyAccess on its own: one processed row whose username is drawn from
\* VerifyUsernames, after a revoke answered 204, against every response.
\* ------------------------------------------------------------------------

VerifyUsernames == { <<" ", "J", "d">>, <<"A", "L">>, <<"j">> }

InitVerify ==
    /\ nrows = 1
    /\ row \in { Row(u, <<"P">>, HAS_ACCESS) : u \in VerifyUsernames }
    /\ i = 1
    /\ pc = "verify"
    /\ revokeResp = [k |-> "resp", status |-> "204", message |-> "none"]
    /\ revokeRes = revokeAccess(revokeResp)
    /\ verifyResp = NoVerifyResp
    /\ verifyRes = NoVerify
    /\ destDir = "none"
    /\ browser = "none"
    /\ trimRes = "none"
    /\ htmlFiles = {}
    /\ pngFiles = [d \in Dirs |-> {}]
    /\ accessCsv = <<>>
    /\ noAccessCsv = <<>>
    /\ apiCalls = <<[op |-> "DELETE", idx |-> 1]>>
    /\ reports = {}
    /\ fatal = "none"

VerifyAny == VerifyWith(VerifyResponses)

SpecVerify == InitVerify /\ [][VerifyAny]_vars

\* ------------------------------------------------------------------------
\* Properties
\* ------------------------------------------------------------------------

RowsWith(csv, k) == { j \in 1..Len(csv) : csv[j].idx = k }

HtmlOf(k) == { h \in htmlFiles : h.idx = k }

FinalImagesOf(k) == { f \in UNION { pngFiles[d] : d \in Dirs } : f.idx = k /\ ~f.tmp }

CallsOf(k) == { j \in 1..Len(apiCalls) : apiCalls[j].idx = k }

\* Row k has left a trace: an API call, an output row or an evidence file.
Touched(k) ==
    \/ CallsOf(k) # {}
    \/ RowsWith(accessCsv, k) # {}
    \/ RowsWith(noAccessCsv, k) # {}
    \/ HtmlOf(k) # {}
    \/ \E d \in Dirs : \E f \in pngFiles[d] : f.idx = k

\* The run is done with the current row: the loop is back at its head, or
\* the run has ended inside the body.
RowHandled == row # NoRow /\ pc \notin BodyPcs

\* C1: once the run has handled a row with status HAS_ACCESS and a username
\* and project key, exactly one row is in exactly one of the two CSV files
\* and exactly one markup file and one image exist for it, whatever happened
\* in the revoke, render, capture and trim steps.
CategorizationCompleteness ==
    (/\ RowHandled
     /\ row.AccessStatus = HAS_ACCESS
     /\ RowUser(row) # <<>>
     /\ RowProject(row) # <<>>)
    => /\ Cardinality(RowsWith(accessCsv, i)) + Cardinality(RowsWith(noAccessCsv, i)) = 1
       /\ Cardinality(HtmlOf(i)) = 1
       /\ Cardinality(FinalImagesOf(i)) = 1

\* C2: the CSV file, the category written in the row and the image
\* directory of a processed row all follow the truthiness of
\* verifyRes.hasAccess and agree with each other, whatever the revoke
\* returned.
VerdictIndependence ==
    /\ \A j \in 1..Len(accessCsv) :
          accessCsv[j].status = "HAS_ACCESS" /\ accessCsv[j].png.dir = "has_access"
    /\ \A j \in 1..Len(noAccessCsv) :
          noAccessCsv[j].status = "NO_ACCESS" /\ noAccessCsv[j].png.dir = "no_access"
    /\ pc \in EvidencePcs \cup {"append"} =>
          /\ destDir = (IF verifyRes.hasAccess = "true" THEN "has_access" ELSE "no_access")
          /\ \A d \in Dirs \ {destDir} : \A f \in pngFiles[d] : f.idx # i
    /\ (pc = "loop" /\ verifyRes # NoVerify) =>
          IF verifyRes.hasAccess = "true"
          THEN /\ Cardinality(RowsWith(accessCsv, i)) = 1
               /\ RowsWith(noAccessCsv, i) = {}
               /\ \A f \in pngFiles["no_access"] : f.idx # i
          ELSE /\ Cardinality(RowsWith(noAccessCsv, i)) = 1
               /\ RowsWith(accessCsv, i) = {}
               /\ \A f \in pngFiles["has_access"] : f.idx # i

\* C2 witness: the revoke returned 204, the verify response still lists the
\* user, and the row has been written to the has-access file.
VerdictIndependenceWitness ==
    /\ pc = "loop"
    /\ revokeRes.ok
    /\ revokeResp.status = "204"
    /\ verifyRes.hasAccess = "true"
    /\ RowsWith(accessCsv, i) # {}
    /\ \E f \in pngFiles["has_access"] : f.idx = i /\ ~f.tmp

\* C3: no browser launched by createEvidence is open once control has left
\* createEvidence, by return or by throw.
RendererReleased == pc \notin EvidencePcs => browser # "open"

\* C4: no failure of the capture step aborts the record: whenever the clipped
\* screenshot throws the full-page one is taken and the run goes on to trim.
CaptureNeverAborts ==
    /\ fatal # "screenshot"
    /\ pc = "trim" => TmpOf(destDir, i) # {}

\* C5: after the trim step the final image exists and the temporary file
\* does not, and if the trim failed the final image is the raw capture.
TrimFailureSafety ==
    pc \in {"close", "append"} =>
        /\ FinalOf(destDir, i) # {}
        /\ TmpOf(destDir, i) = {}
        /\ trimRes = "failed" => \A f \in FinalOf(destDir, i) : ~f.trimmed

\* C6: a failure of the has-access report does not keep the no-access report
\* from being generated in the same run.
ReportIndependence ==
    (/\ pc \in {"exit0", "exit2"}
     /\ fatal = "docx_has_access"
     /\ PngsIn("no_access") # {})
    => \E r \in reports : r.dir = "no_access"

CasePairs == { {"j", "J"}, {"d", "D"}, {"a", "A"}, {"l", "L"} }

EqualIgnoringCase(a, b) ==
    /\ Len(a) = Len(b)
    /\ \A k \in 1..Len(a) : a[k] = b[k] \/ {a[k], b[k]} \in CasePairs

\* An entry carries the name in the flat or in the nested shape.
CarriesName(v, username) ==
    /\ v.k = "obj"
    /\ \/ v.name.k = "str" /\ EqualIgnoringCase(v.name.s, username)
       \/ /\ v.user.k = "obj"
          /\ v.user.name.k = "str"
          /\ EqualIgnoringCase(v.user.name.s, username)

ValuesOf(resp) ==
    IF resp.data.k = "obj" /\ resp.data.vk = "arr" THEN resp.data.items ELSE <<>>

\* C7 as stated: for a received response, hasAccess is true exactly when some
\* entry of the values list carries the username, in either shape, ignoring
\* case.
VerifyMatchesAnyEntry ==
    verifyResp.k = "resp" =>
        (HasAccess(verifyRes) <=>
            \E j \in 1..Len(ValuesOf(verifyResp)) :
                CarriesName(ValuesOf(verifyResp)[j], RowUser(row)))

\* The name the scan reads off an entry: the flat name if it is a non-empty
\* string or a number, else the nested one.
Malformed(v) ==
    \/ v.k = "null"
    \/ v.name.k = "num"
    \/ v.name.k # "str" /\ v.user.k = "obj" /\ v.user.name.k = "num"
    \/ v.name.k = "str" /\ v.name.s = <<>> /\ v.user.k = "obj" /\ v.user.name.k = "num"

ScanMatches(v, username) ==
    /\ v.k = "obj"
    /\ IF v.name.k = "str" /\ v.name.s # <<>>
       THEN EqualIgnoringCase(v.name.s, username)
       ELSE /\ v.name.k # "num"
            /\ v.user.k = "obj"
            /\ v.user.name.k = "str"
            /\ EqualIgnoringCase(v.user.name.s, username)

\* C7 amended: hasAccess is true exactly when some entry matches by the name
\* the scan reads off it (flat before nested) and no entry before it is
\* malformed; a malformed entry met before any match makes verify return
\* ok = false; and whatever the response, hasAccess is true, false or
\* missing and verify returns.
VerifyMatchesInOrder ==
    verifyResp.k # "none" =>
        LET vals == ValuesOf(verifyResp)
            user == RowUser(row)
            hit(j) == /\ ScanMatches(vals[j], user)
                      /\ \A m \in 1..(j - 1) : ~Malformed(vals[m])
            bad(j) == /\ Malformed(vals[j])
                      /\ \A m \in 1..(j - 1) :
                            ~Malformed(vals[m]) /\ ~ScanMatches(vals[m], user)
        IN /\ verifyResp.k = "resp" =>
                /\ HasAccess(verifyRes) <=> \E j \in 1..Len(vals) : hit(j)
                /\ verifyRes.ok <=> ~ \E j \in 1..Len(vals) : bad(j)
                /\ verifyRes.ok => verifyRes.hasAccess \in {"true", "false"}
           /\ verifyResp.k = "throw" => ~verifyRes.ok
           /\ ~verifyRes.ok => verifyRes.hasAccess = "undefined"
           /\ pc = "launch"

\* C7 witness: a two-entry list whose first entry does not match and whose
\* second carries the username in the nested shape with another case.
VerifyMatchesWitness ==
    /\ verifyResp.k = "resp"
    /\ Len(ValuesOf(verifyResp)) = 2
    /\ ~ScanMatches(ValuesOf(verifyResp)[1], RowUser(row))
    /\ ValuesOf(verifyResp)[2].name.k = "undef"
    /\ ValuesOf(verifyResp)[2].user.k = "obj"
    /\ ValuesOf(verifyResp)[2].user.name.s # RowUser(row)
    /\ HasAccess(verifyRes)

\* C8: a verify call that fails in transport yields ok = false and no
\* hasAccess; the row goes on with that result: the markup file embeds the
\* verify result itself, the image goes to the no-access directory, and the
\* row is appended to the no-access file with NO_ACCESS.
DegradedVerify ==
    verifyResp.k = "throw" =>
        /\ ~verifyRes.ok
        /\ ~HasAccess(verifyRes)
        /\ verifyRes.error = verifyResp.message
        /\ pc \in (EvidencePcs \cup {"append", "loop", "exit2"})
        /\ destDir = "no_access"
        /\ HtmlOf(i) = { [idx |-> i, payload |-> "verifyRes"] }
        /\ pc = "loop" =>
              /\ Cardinality(RowsWith(noAccessCsv, i)) = 1
              /\ \A j \in RowsWith(noAccessCsv, i) : noAccessCsv[j].status = "NO_ACCESS"
              /\ RowsWith(accessCsv, i) = {}

\* C8 witness: the verify call timed out and the row is in the no-access file.
DegradedVerifyWitness ==
    /\ verifyResp.k = "throw"
    /\ pc = "loop"
    /\ RowsWith(noAccessCsv, i) # {}
    /\ HtmlOf(i) # {}

\* C9: revoke always returns: ok = false, status null and the message for a
\* network error; ok exactly when the status is 204 for a response.
RevokeResult ==
    /\ revokeResp.k = "throw" =>
          /\ revokeRes = [ok |-> FALSE, status |-> "null", error |-> revokeResp.message]
          /\ pc # "revoke" /\ fatal # "revoke"
    /\ revokeResp.k = "resp" =>
          /\ revokeRes.ok <=> revokeResp.status = "204"
          /\ revokeRes.status = revokeResp.status
          /\ pc # "revoke"
    /\ revokeResp.k = "none" => revokeRes = NoRevoke

\* C9 witness: the server answered 200 and the revoke is not ok.
RevokeResultWitness ==
    /\ revokeResp.k = "resp"
    /\ revokeResp.status = "200"
    /\ ~revokeRes.ok
    /\ pc = "verify"

\* C10 as stated: a row leaves a trace only if its Access Status is exactly
\* HAS_ACCESS and its Username and Project Key are present.
SkipRuleExact ==
    /\ \A k \in 0..MaxRows : Touched(k) => k <= i /\ k >= 1
    /\ (row # NoRow /\ Touched(i)) =>
          /\ row.AccessStatus = HAS_ACCESS
          /\ row.Username # <<>>
          /\ row.ProjectKey # <<>>

\* C10 amended: a row leaves a trace (an API call, an output row, an evidence
\* file) only if its Access Status, trimmed, is HAS_ACCESS and its Username
\* and Project Key, trimmed, are not empty.
SkipRuleTrimmed ==
    /\ \A k \in 0..MaxRows : Touched(k) => k <= i /\ k >= 1
    /\ (row # NoRow /\ Touched(i)) =>
          /\ Trim(row.AccessStatus) = HAS_ACCESS
          /\ Trim(row.Username) # <<>>
          /\ Trim(row.ProjectKey) # <<>>

\* C10 witness: the first row was processed and the second, NO_ACCESS, was
\* skipped without a trace.
SkipRuleWitness ==
    /\ pc = "loop"
    /\ i = 2
    /\ row.AccessStatus = NO_ACCESS
    /\ Touched(1)
    /\ ~Touched(2)

====
